---- MODULE Spec2Model ----
(***************************************************************************)
(* A model of package slogtripper (src/slogtripper.go): the SlogTripper    *)
(* http.RoundTripper decorator, its functional options, NewSlogTripper,    *)
(* RoundTrip, log, and the sync.Once guarded Init.                         *)
(***************************************************************************)
EXTENDS Integers, Sequences, FiniteSets, TLC

\* ------------------------------------------------------------------ bounds
MaxBody == 2       \* longest body content, in bytes
NumProcs == 3      \* goroutines calling Init concurrently
MaxCalls == 2      \* Init calls made by one goroutine

\* --------------------------------------------------------- slog severities
LevelDebug == -4
LevelInfo == 0
UnsupportedLevels == {LevelInfo + 4}
Levels == {LevelDebug, LevelInfo} \cup UnsupportedLevels

\* ------------------------------------------------------------------ values
\* A *slog.Logger: id 0 is the nil pointer; minLevel is its handler's filter.
NilLogger == [id |-> 0, minLevel |-> LevelInfo]
InfoLogger == [id |-> 1, minLevel |-> LevelInfo]
DebugLogger == [id |-> 2, minLevel |-> LevelDebug]
Loggers == {InfoLogger, DebugLogger}

\* An error value: "" is nil.
NoErr == ""
MockErr == "mock error"
ReadErr == "error"

Bytes == {1, 2}
Contents == UNION {[1..n -> Bytes] : n \in 0..MaxBody}

\* An io.ReadCloser. nil: the nil interface. data: the bytes still unread.
\* fails: Read returns an error (not io.EOF) once data is exhausted.
NilBody == [nil |-> TRUE, id |-> 0, data |-> <<>>, fails |-> FALSE]
Reader(i, d, f) == [nil |-> FALSE, id |-> i, data |-> d, fails |-> f]

\* An http.Header: nil, or a map from names to value lists.
NilHeader == [nil |-> TRUE, m |-> <<>>]
Header(f) == [nil |-> FALSE, m |-> f]

\* textproto.CanonicalMIMEHeaderKey on the names of the model.
CanonicalMIMEHeaderKey(name) == IF name = "x-a" THEN "X-A" ELSE name

\* http.Header.Get: the first value stored under the canonical form of the
\* name, "" when there is none.
Get(h, name) ==
  LET k == CanonicalMIMEHeaderKey(name) IN
  IF ~h.nil /\ k \in DOMAIN h.m /\ Len(h.m[k]) > 0 THEN h.m[k][1] ELSE ""

\* An *http.Request and an *http.Response; nil is the nil pointer.
NilReq == [nil |-> TRUE, hasURL |-> FALSE, Header |-> NilHeader, Body |-> NilBody]
Req(u, h, b) == [nil |-> FALSE, hasURL |-> u, Header |-> h, Body |-> b]
NilRes == [nil |-> TRUE, id |-> 0, Header |-> NilHeader, Body |-> NilBody]
Res(i, h, b) == [nil |-> FALSE, id |-> i, Header |-> h, Body |-> b]

\* An http.RoundTripper: the nil interface, a transport that is not a
\* SlogTripper (it returns what the call's script says), or a *SlogTripper.
NilTransport == [kind |-> "nil"]
BaseTransport(i) == [kind |-> "base", id |-> i]
OriginalTransport == BaseTransport(1)
MockTransport == BaseTransport(2)

\* --------------------------------------------------------- bytes.Buffer
\* (*bytes.Buffer).ReadFrom: Read until io.EOF or an error, appending what
\* each Read delivers (one byte per Read here).
RECURSIVE ReadFrom(_, _)
ReadFrom(body, buf) ==
  IF body.data = <<>>
  THEN [buf |-> buf, err |-> IF body.fails THEN ReadErr ELSE NoErr]
  ELSE ReadFrom([body EXCEPT !.data = Tail(@)], Append(buf, Head(body.data)))

\* The id of the reader io.NopCloser(b) creates: an object distinct from the
\* body it replaces.
FreshId(id) == id + 10

\* The body left in place after the read: the same reader, drained.
NopCloserMissing(body, buf) == [body EXCEPT !.data = <<>>]

\* io.NopCloser(b) over the buffer filled from body.
NopCloser(body, buf) == Reader(FreshId(body.id), buf, FALSE)

\* ------------------------------------------------------------ SlogTripper
\* The struct of lines 77-88.
SlogTripper(l, lv, t, rqb, rsb, rqh, rsh) ==
  [kind |-> "slog", logger |-> l, logAtLevel |-> lv, proxyTransport |-> t,
   captureRequestBody |-> rqb, captureResponseBody |-> rsb,
   captureRequestHeaders |-> rqh, captureResponseHeaders |-> rsh]

\* What one RoundTrip call did. outcome: "returned" or "panic". res, err: the
\* values returned. readFail: which of this decorator's own body reads failed.
\* dcalls, dreq, dout, dres, derr: this decorator's own calls of its delegate,
\* the request it passed and what came back. handed: the records handed to
\* loggers by this call and the calls below it (depth 0: by this decorator).
\* closed: ids of the bodies closed. baseCalls: calls that reached a transport
\* that is not a SlogTripper.
NoResult ==
  [outcome |-> "panic", res |-> NilRes, err |-> NoErr, readFail |-> "none",
   dcalls |-> 0, dreq |-> NilReq, dout |-> "none", dres |-> NilRes,
   derr |-> NoErr, handed |-> <<>>, closed |-> {}, baseCalls |-> 0]

With(base, over) ==
  [f \in DOMAIN base |-> IF f \in DOMAIN over THEN over[f] ELSE base[f]]

\* The capture with the read's error dropped.
CaptureBodyErrorDropped(on, owner) ==
  IF ~owner.nil /\ on /\ ~owner.Body.nil
  THEN LET b == ReadFrom(owner.Body, <<>>) IN
       [err |-> NoErr,
        owner |-> [owner EXCEPT !.Body = NopCloser(owner.Body, b.buf)],
        captured |-> TRUE, content |-> b.buf, closed |-> {owner.Body.id}]
  ELSE [err |-> NoErr, owner |-> owner, captured |-> FALSE,
        content |-> <<>>, closed |-> {}]

\* Lines 123-135 and 167-179: when capture is on and the owner (request or
\* response) has a body, drain it into a buffer; on success close it and put
\* io.NopCloser(b) in its place.
CaptureBody(on, owner) ==
  IF ~owner.nil /\ on /\ ~owner.Body.nil
  THEN LET b == ReadFrom(owner.Body, <<>>) IN
       IF b.err # NoErr
       THEN [err |-> b.err, owner |-> owner, captured |-> FALSE,
             content |-> <<>>, closed |-> {}]
       ELSE [err |-> NoErr,
             owner |-> [owner EXCEPT !.Body = NopCloser(owner.Body, b.buf)],
             captured |-> TRUE, content |-> b.buf,
             closed |-> {owner.Body.id}]
  ELSE [err |-> NoErr, owner |-> owner, captured |-> FALSE,
        content |-> <<>>, closed |-> {}]

\* Lines 140-143 and 184-187: one slog.String(name, from.Get(name)) for each
\* name of the header ranged over.
HeaderAttrs(ranged, from) ==
  {<<name, Get(from, name)>> : name \in DOMAIN ranged.m}

\* Lines 137-148: the request's headers sub-group.
RequestHeaders(st, req) ==
  IF ~req.nil /\ st.captureRequestHeaders /\ ~req.Header.nil
  THEN HeaderAttrs(req.Header, req.Header)
  ELSE {}

\* Lines 181-192: the response's headers sub-group; the loop body reads
\* req.Header.
ResponseHeaders(st, req, res) ==
  IF ~res.nil /\ st.captureResponseHeaders /\ ~res.Header.nil
  THEN HeaderAttrs(res.Header, req.Header)
  ELSE {}

\* Line 186 dereferences req inside the loop over res.Header.
ResponseHeadersPanics(st, req, res) ==
  /\ ~res.nil /\ st.captureResponseHeaders /\ ~res.Header.nil
  /\ DOMAIN res.Header.m # {}
  /\ req.nil

Opt(on, keys) == IF on THEN keys ELSE <<>>

\* Lines 108-149: the request group.
RequestGroup(st, req, cap) ==
  LET hs == RequestHeaders(st, req) IN
  [keys |-> <<"started_at">>
            \o Opt(~req.nil, <<"method", "content_length", "proto">>)
            \o Opt(~req.nil /\ req.hasURL, <<"url">>)
            \o Opt(cap.captured, <<"body_content">>)
            \o Opt(hs # {}, <<"headers">>),
   body_content |-> cap.content, headers |-> hs, error |-> NoErr]

\* Lines 153-193: the response group.
ResponseGroup(st, req, res, err, cap) ==
  LET hs == ResponseHeaders(st, req, res) IN
  [keys |-> Opt(err # NoErr, <<"error">>)
            \o Opt(~res.nil, <<"status", "status_code", "content_length",
                               "time_taken", "content_type">>)
            \o Opt(cap.captured, <<"body_content">>)
            \o Opt(hs # {}, <<"headers">>),
   body_content |-> cap.content, headers |-> hs, error |-> err]

\* Lines 200-207: log hands the record to st.logger at Debug or Info and
\* does nothing at any other level. Calling a method of a nil *slog.Logger
\* dereferences it.
logPanics(st) ==
  st.logAtLevel \in {LevelDebug, LevelInfo} /\ st.logger.id = 0

\* A log whose switch has a default case that logs at the level given.
logAtAnyLevel(st, msg, request, response) ==
  <<[depth |-> 0, logger |-> st.logger, level |-> st.logAtLevel,
     msg |-> msg, request |-> request, response |-> response]>>

log(st, msg, request, response) ==
  IF st.logAtLevel \in {LevelDebug, LevelInfo}
  THEN <<[depth |-> 0, logger |-> st.logger, level |-> st.logAtLevel,
          msg |-> msg, request |-> request, response |-> response]>>
  ELSE <<>>

\* (*slog.Logger).Enabled: the handler's level filter.
Emitted(h) == h.level >= h.logger.minLevel

Deeper(handed) ==
  [i \in 1..Len(handed) |-> [handed[i] EXCEPT !.depth = @ + 1]]

\* Lines 104-198.
RECURSIVE RoundTrip(_, _, _)

\* Line 151: st.proxyTransport.RoundTrip(req). sc is what the transport at
\* the end of the chain returns.
Delegate(t, req, sc) ==
  CASE t.kind = "nil" -> NoResult
    [] t.kind = "base" ->
         With(NoResult, [outcome |-> "returned", res |-> sc.res,
                         err |-> sc.err, baseCalls |-> 1])
    [] OTHER -> RoundTrip(t, req, sc)

RoundTrip(st, req, sc) ==
  LET qcap == CaptureBody(st.captureRequestBody, req) IN
  IF qcap.err # NoErr
  THEN With(NoResult, [outcome |-> "returned", err |-> qcap.err,
                       readFail |-> "req"])
  ELSE
  LET req1 == qcap.owner
      requestGroup == RequestGroup(st, req1, qcap)
      d == Delegate(st.proxyTransport, req1, sc)
      own == [dcalls |-> 1, dreq |-> req1, dout |-> d.outcome,
              dres |-> d.res, derr |-> d.err,
              handed |-> Deeper(d.handed),
              closed |-> qcap.closed \cup d.closed,
              baseCalls |-> d.baseCalls]
  IN
  IF d.outcome = "panic"
  THEN With(NoResult, own)
  ELSE
  LET scap == CaptureBody(st.captureResponseBody, d.res) IN
  IF scap.err # NoErr
  THEN With(NoResult, own @@ [outcome |-> "returned", err |-> scap.err,
                              readFail |-> "res"])
  ELSE
  LET res1 == scap.owner
      closed1 == own.closed \cup scap.closed
  IN
  IF ResponseHeadersPanics(st, req1, res1) \/ req1.nil \/ logPanics(st)
  THEN With(NoResult, [closed |-> closed1] @@ own)
  ELSE
  With(NoResult,
       [outcome |-> "returned", res |-> res1, err |-> d.err,
        closed |-> closed1,
        handed |-> own.handed
                   \o log(st, "HTTP Request", requestGroup,
                          ResponseGroup(st, req1, res1, d.err, scap))]
       @@ own)

\* ------------------------------------------------------------------ state
VARIABLES
  defaultTransport,  \* http.DefaultTransport
  defaultLogger,     \* what slog.Default() returns
  done,              \* sync.Once m: its done flag
  mutex,             \* sync.Once m: the holder of its mutex, 0 when free
  pc,                \* where each goroutine calling Init is
  calls,             \* Init calls each goroutine has started
  bodyRuns,          \* times the function passed to m.Do was entered
  st,                \* the http.RoundTripper the caller holds
  from,              \* where st is from: "New", "DefaultTransport" or "none"
  opts,              \* the options NewSlogTripper was given, when from it
  last               \* the most recent RoundTrip call and what it did

vars == <<defaultTransport, defaultLogger, done, mutex, pc, calls, bodyRuns,
          st, from, opts, last>>
callerVars == <<st, from, opts>>
onceVars == <<done, mutex, pc, calls, bodyRuns>>

Procs == 1..NumProcs

\* ---------------------------------------------------------------- options
\* An Option: the closure an option constructor returns (lines 27-75).
WithLogger(l) ==
  [op |-> "WithLogger", l |-> l, level |-> LevelInfo, t |-> NilTransport]
WithLoggingLevel(level) ==
  [op |-> "WithLoggingLevel", l |-> NilLogger, level |-> level,
   t |-> NilTransport]
WithRoundTripper(t) ==
  [op |-> "WithRoundTripper", l |-> NilLogger, level |-> LevelInfo, t |-> t]
Flag(name) ==
  [op |-> name, l |-> NilLogger, level |-> LevelInfo, t |-> NilTransport]
CaptureRequestBody == Flag("CaptureRequestBody")
CaptureResponseBody == Flag("CaptureResponseBody")
CaptureRequestHeaders == Flag("CaptureRequestHeaders")
CaptureResponseHeaders == Flag("CaptureResponseHeaders")

\* The option without its nil check.
LoggerAsGiven(l) == l

\* Lines 29-31: a nil logger falls back to slog.Default().
LoggerOrDefault(l) == IF l.id = 0 THEN defaultLogger ELSE l

\* Lines 45-47: a nil transport falls back to http.DefaultTransport.
TransportOrDefault(t) == IF t.kind = "nil" THEN defaultTransport ELSE t

\* Applying one Option to the decorator under construction.
Apply(o, s) ==
  CASE o.op = "WithLogger" -> [s EXCEPT !.logger = LoggerOrDefault(o.l)]
    [] o.op = "WithLoggingLevel" -> [s EXCEPT !.logAtLevel = o.level]
    [] o.op = "WithRoundTripper" ->
         [s EXCEPT !.proxyTransport = TransportOrDefault(o.t)]
    [] o.op = "CaptureRequestBody" -> [s EXCEPT !.captureRequestBody = TRUE]
    [] o.op = "CaptureResponseBody" -> [s EXCEPT !.captureResponseBody = TRUE]
    [] o.op = "CaptureRequestHeaders" ->
         [s EXCEPT !.captureRequestHeaders = TRUE]
    [] o.op = "CaptureResponseHeaders" ->
         [s EXCEPT !.captureResponseHeaders = TRUE]

\* Lines 97-99: the options are applied in order.
RECURSIVE ApplyAll(_, _)
ApplyAll(os, s) ==
  IF os = <<>> THEN s ELSE ApplyAll(Tail(os), Apply(Head(os), s))

\* Lines 91-95: the decorator before any option is applied.
Defaults ==
  SlogTripper(defaultLogger, LevelInfo, defaultTransport,
              FALSE, FALSE, FALSE, FALSE)

\* Lines 90-102.
NewSlogTripper(os) == ApplyAll(os, Defaults)

\* Lines 19-21: the struct literal Init stores; every field but
\* proxyTransport has its zero value (a nil logger, level 0, no capture).
InitLiteral(t) ==
  SlogTripper(NilLogger, 0, t, FALSE, FALSE, FALSE, FALSE)

\* ----------------------------------------------------------------- inputs
\* Request and response bodies: none, a reader over any content, and readers
\* whose Read fails (ErrorReadCloser of the tests fails at once).
Bodies(id) ==
  {NilBody}
    \cup {Reader(id, d, FALSE) : d \in Contents}
    \cup {Reader(id, d, TRUE) : d \in {<<>>, <<1>>}}

FullRequestHeader ==
  Header(("X-A" :> <<"q1", "q2">>) @@ ("x-a" :> <<"q3">>))
RequestHeaderSets == {NilHeader, Header(<<>>), FullRequestHeader}

FullResponseHeader ==
  Header(("X-A" :> <<"r1">>) @@ ("Content-Type" :> <<"json">>))
ResponseHeaderSets == {NilHeader, Header(<<>>), FullResponseHeader}

\* The requests RoundTrip is called with: none, &http.Request{}, a request
\* with each header set, and a request with each body.
Requests ==
  {NilReq, Req(FALSE, NilHeader, NilBody)}
    \cup {Req(TRUE, h, NilBody) : h \in RequestHeaderSets}
    \cup {Req(TRUE, FullRequestHeader, b) : b \in Bodies(1)}

Responses ==
  {NilRes}
    \cup {Res(1, h, NilBody) : h \in ResponseHeaderSets}
    \cup {Res(1, FullResponseHeader, b) : b \in Bodies(2)}

\* What the transport at the end of the chain returns: any response or none
\* without an error, and with an error none (TestResponseError) or a
\* response.
Scripts ==
  {[res |-> r, err |-> NoErr] : r \in Responses}
    \cup {[res |-> r, err |-> MockErr] :
            r \in {NilRes}
                    \cup {Res(1, FullResponseHeader, b) :
                            b \in {NilBody, Reader(2, <<1>>, FALSE),
                                   Reader(2, <<>>, TRUE)}}}

FlagOptions ==
  <<CaptureRequestBody, CaptureResponseBody, CaptureRequestHeaders,
    CaptureResponseHeaders>>

Subseq(seq, keep) == SelectSeq(seq, LAMBDA o : o \in keep)

\* The option lists NewSlogTripper is called with: every set of capture
\* options at the default level and at a level set by an option, and every
\* list of at most two logger and transport options.
OtherOptions ==
  {WithLogger(NilLogger), WithLogger(DebugLogger),
   WithRoundTripper(NilTransport), WithRoundTripper(MockTransport)}

OptionLists ==
  {lv \o Subseq(FlagOptions, keep) :
     lv \in {<<>>} \cup {<<WithLoggingLevel(l)>> : l \in Levels \ {LevelInfo}},
     keep \in SUBSET {FlagOptions[i] : i \in 1..4}}
    \cup {<<WithLoggingLevel(LevelDebug), WithLoggingLevel(LevelInfo)>>}
    \cup {<<a>> : a \in OtherOptions}
    \cup {<<a, b>> : a \in OtherOptions, b \in OtherOptions}

\* ---------------------------------------------------------------- actions
NoCall == [called |-> FALSE]

Init ==
  /\ defaultTransport = OriginalTransport
  /\ defaultLogger = InfoLogger
  /\ done = FALSE
  /\ mutex = 0
  /\ pc = [p \in Procs |-> "idle"]
  /\ calls = [p \in Procs |-> 0]
  /\ bodyRuns = 0
  /\ st = NilTransport
  /\ from = "none"
  /\ opts = <<>>
  /\ last = NoCall

\* The caller is sequential: it makes one call at a time and takes the result
\* of a RoundTrip before its next call.
Idle == ~last.called

\* st := NewSlogTripper(os...)
New(os) ==
  /\ Idle
  /\ st' = NewSlogTripper(os)
  /\ from' = "New"
  /\ opts' = os
  /\ UNCHANGED <<defaultTransport, defaultLogger, onceVars, last>>

\* st := http.DefaultTransport, as an http.Client does, once Init has
\* installed a decorator.
UseDefaultTransport ==
  /\ Idle
  /\ defaultTransport.kind = "slog"
  /\ st' = defaultTransport
  /\ from' = "DefaultTransport"
  /\ opts' = <<>>
  /\ UNCHANGED <<defaultTransport, defaultLogger, onceVars, last>>

\* slog.SetDefault(l), as TestDefaultLoggerChangeAfterInit does.
SetDefault(l) ==
  /\ Idle
  /\ l # defaultLogger
  /\ defaultLogger' = l
  /\ UNCHANGED <<defaultTransport, onceVars, callerVars, last>>

\* Lines 15-23, called by a single goroutine: m.Do runs the function on the
\* first call only.
CallInit ==
  /\ Idle
  /\ IF done
     THEN UNCHANGED <<defaultTransport, done, bodyRuns>>
     ELSE /\ defaultTransport' = InitLiteral(NewSlogTripper(<<>>))
          /\ done' = TRUE
          /\ bodyRuns' = bodyRuns + 1
  /\ UNCHANGED <<defaultLogger, mutex, pc, calls, callerVars, last>>

\* st.RoundTrip(req)
CallRoundTrip(req, sc) ==
  /\ Idle
  /\ st.kind = "slog"
  /\ last' = [called |-> TRUE, req |-> req, sc |-> sc,
              r |-> RoundTrip(st, req, sc)]
  /\ UNCHANGED <<defaultTransport, defaultLogger, onceVars, callerVars>>

\* The caller takes the result.
Return ==
  /\ last.called
  /\ last' = NoCall
  /\ UNCHANGED <<defaultTransport, defaultLogger, onceVars, callerVars>>

\* ------------------------------------------------- Init, called concurrently
\* A Do that runs the function on every call.
ShouldRunAlways(d) == TRUE

\* sync.Once.Do, line 16: done is checked without the mutex, then again with
\* the mutex held; the function runs when it is still unset.
ShouldRun(d) == ~d

\* Init() is called; Do returns at once when done is set.
OnceDo(p) ==
  /\ pc[p] = "idle"
  /\ calls[p] < MaxCalls
  /\ calls' = [calls EXCEPT ![p] = @ + 1]
  /\ pc' = [pc EXCEPT ![p] = IF ShouldRun(done) THEN "lock" ELSE "returned"]
  /\ UNCHANGED <<defaultTransport, defaultLogger, done, mutex, bodyRuns,
                 callerVars, last>>

\* The slow path takes the mutex and checks done again.
OnceLock(p) ==
  /\ pc[p] = "lock"
  /\ mutex = 0
  /\ mutex' = p
  /\ pc' = [pc EXCEPT ![p] = IF ShouldRun(done) THEN "line17" ELSE "unlock"]
  /\ bodyRuns' = IF ShouldRun(done) THEN bodyRuns + 1 ELSE bodyRuns
  /\ UNCHANGED <<defaultTransport, defaultLogger, done, calls, callerVars, last>>

\* Line 17.
InitLine17(p) ==
  /\ pc[p] = "line17"
  /\ defaultTransport' = NewSlogTripper(<<>>)
  /\ pc' = [pc EXCEPT ![p] = "line19"]
  /\ UNCHANGED <<defaultLogger, done, mutex, calls, bodyRuns, callerVars, last>>

\* Lines 19-21.
InitLine19(p) ==
  /\ pc[p] = "line19"
  /\ defaultTransport' = InitLiteral(defaultTransport)
  /\ pc' = [pc EXCEPT ![p] = "store"]
  /\ UNCHANGED <<defaultLogger, done, mutex, calls, bodyRuns, callerVars, last>>

\* The function has returned: Do sets done, then releases the mutex.
OnceStore(p) ==
  /\ pc[p] = "store"
  /\ done' = TRUE
  /\ pc' = [pc EXCEPT ![p] = "unlock"]
  /\ UNCHANGED <<defaultTransport, defaultLogger, mutex, calls, bodyRuns,
                 callerVars, last>>

OnceUnlock(p) ==
  /\ pc[p] = "unlock"
  /\ mutex' = 0
  /\ pc' = [pc EXCEPT ![p] = "returned"]
  /\ UNCHANGED <<defaultTransport, defaultLogger, done, calls, bodyRuns,
                 callerVars, last>>

\* Init has returned to the goroutine, which may call it again.
InitReturned(p) ==
  /\ pc[p] = "returned"
  /\ pc' = [pc EXCEPT ![p] = "idle"]
  /\ UNCHANGED <<defaultTransport, defaultLogger, done, mutex, calls,
                 bodyRuns, callerVars, last>>

\* ---------------------------------------------------------- specifications
\* Decorators built by NewSlogTripper and installed by Init, and the
\* RoundTrip calls made on them.
Next ==
  \/ \E os \in OptionLists : New(os)
  \/ CallInit
  \/ UseDefaultTransport
  \/ \E req \in Requests, sc \in Scripts : CallRoundTrip(req, sc)
  \/ Return

Spec == Init /\ [][Next]_vars

\* Decorators and RoundTrip calls while the process default logger changes.
NextLogger ==
  \/ \E os \in OptionLists : New(os)
  \/ \E l \in Loggers : SetDefault(l)
  \/ \E req \in Requests, sc \in Scripts : CallRoundTrip(req, sc)
  \/ Return

SpecLogger == Init /\ [][NextLogger]_vars

\* Goroutines calling Init concurrently.
NextOnce ==
  \E p \in Procs :
    \/ OnceDo(p)
    \/ OnceLock(p)
    \/ InitLine17(p)
    \/ InitLine19(p)
    \/ OnceStore(p)
    \/ OnceUnlock(p)
    \/ InitReturned(p)

SpecOnce == Init /\ [][NextOnce]_vars

\* ------------------------------------------------------------- properties
\* The records the called decorator itself handed to its logger.
Own(r) == SelectSeq(r.handed, LAMBDA h : h.depth = 0)

FlagsOff(s) ==
  /\ ~s.captureRequestBody /\ ~s.captureResponseBody
  /\ ~s.captureRequestHeaders /\ ~s.captureResponseHeaders

SameResponse(a, b) == a.nil = b.nil /\ a.id = b.id

\* A request-body read of the call fails: capture is on and the body's Read
\* returns an error.
RequestReadFails ==
  /\ st.captureRequestBody /\ ~last.req.nil
  /\ ~last.req.Body.nil /\ last.req.Body.fails

\* The request body was read, and read to its end.
RequestReadSucceeds ==
  /\ st.captureRequestBody /\ ~last.req.nil
  /\ ~last.req.Body.nil /\ ~last.req.Body.fails

\* The delegate was called and returned.
DelegateReturned == last.r.dcalls = 1 /\ last.r.dout = "returned"

ResponseReadFails ==
  /\ ~RequestReadFails /\ DelegateReturned
  /\ st.captureResponseBody /\ ~last.r.dres.nil
  /\ ~last.r.dres.Body.nil /\ last.r.dres.Body.fails

ResponseReadSucceeds ==
  /\ ~RequestReadFails /\ DelegateReturned
  /\ st.captureResponseBody /\ ~last.r.dres.nil
  /\ ~last.r.dres.Body.nil /\ ~last.r.dres.Body.fails

NoReadFails == ~RequestReadFails /\ ~ResponseReadFails

\* C1: a RoundTrip call with a present request in which no body read fails
\* calls the delegate exactly once and returns the response object and the
\* error the delegate returned; with every capture flag off the response is
\* returned as the delegate left it.
C1_DelegateResultVerbatim ==
  (last.called /\ ~last.req.nil /\ NoReadFails /\ last.r.dout # "panic") =>
     /\ last.r.outcome = "returned"
     /\ last.r.dcalls = 1
     /\ SameResponse(last.r.res, last.r.dres)
     /\ last.r.err = last.r.derr
     /\ FlagsOff(st) => last.r.res = last.r.dres

\* C2: when request-body capture is on and the read succeeds, the delegate
\* receives a fresh unread body holding the bytes of the original body, which
\* is closed; when response-body capture is on and the read succeeds, the
\* delegate's body is closed, and the response returned holds a fresh unread
\* body with the bytes the delegate's body held; the record's body_content is
\* those bytes.
C2_BodyRoundTrip ==
  last.called =>
    /\ RequestReadSucceeds =>
         /\ last.r.dcalls = 1
         /\ ~last.r.dreq.Body.nil /\ ~last.r.dreq.Body.fails
         /\ last.r.dreq.Body.id # last.req.Body.id
         /\ last.r.dreq.Body.data = last.req.Body.data
         /\ last.req.Body.id \in last.r.closed
         /\ \A i \in 1..Len(Own(last.r)) :
              Own(last.r)[i].request.body_content = last.req.Body.data
    /\ ResponseReadSucceeds =>
         /\ last.r.dres.Body.id \in last.r.closed
         /\ last.r.outcome = "returned" =>
              /\ SameResponse(last.r.res, last.r.dres)
              /\ ~last.r.res.Body.nil /\ ~last.r.res.Body.fails
              /\ last.r.res.Body.id # last.r.dres.Body.id
              /\ last.r.res.Body.data = last.r.dres.Body.data
         /\ \A i \in 1..Len(Own(last.r)) :
              Own(last.r)[i].response.body_content = last.r.dres.Body.data

\* C2 witness: a call that captured a two-byte request body and a two-byte
\* response body, logged and returned.
C2_Witness ==
  /\ last.called /\ RequestReadSucceeds /\ ResponseReadSucceeds
  /\ Len(last.req.Body.data) >= 2 /\ Len(last.r.dres.Body.data) >= 2
  /\ last.r.outcome = "returned" /\ Len(Own(last.r)) = 1

\* C3: when a captured body's read fails, RoundTrip returns the read error
\* with a nil response and hands no record to its logger; for the request
\* body the delegate is never called, for the response body it was called
\* exactly once and what it returned is dropped.
C3_ReadFailure ==
  last.called =>
    /\ RequestReadFails =>
         /\ last.r.outcome = "returned"
         /\ last.r.res.nil /\ last.r.err = ReadErr
         /\ last.r.dcalls = 0 /\ last.r.baseCalls = 0
         /\ last.r.handed = <<>>
    /\ ResponseReadFails =>
         /\ last.r.outcome = "returned"
         /\ last.r.res.nil /\ last.r.err = ReadErr
         /\ last.r.dcalls = 1
         /\ Own(last.r) = <<>>

\* C3 witness: the delegate returned a response and an error, the response's
\* body failed to read, and the read error came back alone.
C3_Witness ==
  /\ last.called /\ ResponseReadFails
  /\ last.r.derr = MockErr /\ last.r.err = ReadErr /\ last.r.res.nil

\* C5: a call with a present request that returns without a body-read
\* failure hands exactly one "HTTP Request" record with a request and a
\* response group to the decorator's logger at the configured level when that
\* is Info or Debug and none at any other level; no call hands more than one.
C5_OneRecord ==
  last.called =>
    /\ Len(Own(last.r)) <= 1
    /\ (~last.req.nil /\ last.r.outcome = "returned" /\ NoReadFails) =>
         IF st.logAtLevel \in {LevelInfo, LevelDebug}
         THEN /\ Len(Own(last.r)) = 1
              /\ Own(last.r)[1].msg = "HTTP Request"
              /\ Own(last.r)[1].level = st.logAtLevel
              /\ Own(last.r)[1].logger = st.logger
              /\ Head(Own(last.r)[1].request.keys) = "started_at"
              /\ Own(last.r)[1].response.error = last.r.derr
         ELSE Own(last.r) = <<>>

\* C5 witness: the delegate failed and the call, at Debug, handed one record.
C5_Witness ==
  /\ last.called /\ ~last.req.nil /\ last.r.outcome = "returned"
  /\ st.logAtLevel = LevelDebug /\ last.r.derr = MockErr
  /\ Len(Own(last.r)) = 1

HasOption(os, op) == \E i \in 1..Len(os) : os[i].op = op

\* C4: a decorator built without WithLogger follows the live default logger:
\* at level Debug its record is emitted to the logger that is the process
\* default when RoundTrip is called, if that logger lets Debug through, and
\* no record is emitted if it filters at Info.
C4_FollowsLiveDefault ==
  (/\ last.called /\ from = "New" /\ ~HasOption(opts, "WithLogger")
   /\ st.logAtLevel = LevelDebug
   /\ ~last.req.nil /\ last.r.outcome = "returned" /\ NoReadFails) =>
     IF LevelDebug >= defaultLogger.minLevel
     THEN \E i \in 1..Len(Own(last.r)) :
            /\ Own(last.r)[i].logger = defaultLogger
            /\ Emitted(Own(last.r)[i])
     ELSE \A i \in 1..Len(Own(last.r)) : ~Emitted(Own(last.r)[i])

\* The decorator Init installs when the default transport is t and the
\* default logger l.
Installed(l, t) ==
  SlogTripper(NilLogger, 0,
              SlogTripper(l, LevelInfo, t, FALSE, FALSE, FALSE, FALSE),
              FALSE, FALSE, FALSE, FALSE)

\* C6: however the Init calls interleave, the function passed to m.Do is
\* entered at most once, and when an Init call has returned it has run once
\* and to its end: the default transport is the decorator one Init call
\* installs, never a wrapping of it.
C6_InitOnce ==
  /\ bodyRuns <= 1
  /\ \A p \in Procs :
       pc[p] = "returned" =>
         /\ done /\ bodyRuns = 1
         /\ \A q \in Procs : pc[q] \notin {"line17", "line19", "store"}
         /\ defaultTransport = Installed(defaultLogger, OriginalTransport)

\* C6 witness: two goroutines have returned from Init, one of them from its
\* second call.
C6_Witness ==
  \E p, q \in Procs :
    /\ p # q /\ pc[p] = "returned" /\ pc[q] = "returned"
    /\ calls[p] >= 2 /\ calls[q] >= 1

\* C7: called with a nil request, RoundTrip does not fault on its own
\* account, calls the delegate, returns what it returned and hands its
\* logger a record whose request group holds started_at alone.
C7_NilRequestTolerated ==
  (/\ last.called /\ last.req.nil /\ st.logger.id # 0
   /\ last.r.dout # "panic" /\ NoReadFails) =>
     /\ last.r.outcome = "returned"
     /\ last.r.dcalls = 1
     /\ SameResponse(last.r.res, last.r.dres)
     /\ last.r.err = last.r.derr
     /\ st.logAtLevel \in {LevelInfo, LevelDebug} =>
          /\ Len(Own(last.r)) = 1
          /\ Own(last.r)[1].request.keys = <<"started_at">>

\* C8: with request-header capture on, the request group's headers hold, for
\* each name of the request's headers, the value the request's headers give
\* for it; with response-header capture on, the response group's headers
\* hold, for each name of the response's headers, the value the response's
\* headers give for it; an empty header set gives no headers sub-group.
C8_HeadersOwnValues ==
  (last.called /\ last.r.outcome = "returned" /\ Len(Own(last.r)) = 1) =>
    LET h == Own(last.r)[1]
        inKeys(g) == \E i \in 1..Len(g.keys) : g.keys[i] = "headers"
    IN
    /\ (st.captureRequestHeaders /\ ~last.req.Header.nil) =>
         /\ \A name \in DOMAIN last.req.Header.m :
              <<name, Get(last.req.Header, name)>> \in h.request.headers
         /\ inKeys(h.request) <=> DOMAIN last.req.Header.m # {}
    /\ (st.captureResponseHeaders /\ ~last.r.res.nil
        /\ ~last.r.res.Header.nil) =>
         /\ \A name \in DOMAIN last.r.res.Header.m :
              <<name, Get(last.r.res.Header, name)>> \in h.response.headers
         /\ inKeys(h.response) <=> DOMAIN last.r.res.Header.m # {}

Max(S) == CHOOSE x \in S : \A y \in S : y <= x
Uses(os, op) == {i \in 1..Len(os) : os[i].op = op}

RECURSIVE Decorators(_)
Decorators(t) ==
  IF t.kind = "slog" THEN {t} \cup Decorators(t.proxyTransport) ELSE {}

\* C10: every decorator NewSlogTripper or Init made holds a logger and a
\* delegate; the decorator Init installs delegates to the transport that was
\* the default when Init ran; and a request sent through the default
\* transport after Init reaches that transport once and hands one record to
\* a logger, with no fault.
C10_DecoratorsWellFormed ==
  /\ \A d \in Decorators(st) \cup Decorators(defaultTransport) :
       d.logger.id # 0 /\ d.proxyTransport.kind # "nil"
  /\ done => /\ defaultTransport.kind = "slog"
             /\ defaultTransport.proxyTransport = OriginalTransport
  /\ (last.called /\ from = "DefaultTransport" /\ ~last.req.nil) =>
       /\ last.r.outcome = "returned"
       /\ last.r.baseCalls = 1
       /\ Len(last.r.handed) = 1

====
